---- MODULE Spec2Model ----
(***************************************************************************)
(* Model of src/src/app.py: the FastAPI request inspector handle_messages  *)
(* (route /api/messages) and the Teams catch-all handler handle_message.   *)
(*                                                                         *)
(* Text is a sequence of one-character strings.  Bytes are a sequence of   *)
(* byte tokens: an ASCII byte is written as its character, a byte >= 0x80  *)
(* as "xHH".  A log message is a sequence of string fragments, the pieces  *)
(* an f-string concatenates.                                               *)
(***************************************************************************)
EXTENDS Integers, Sequences, FiniteSets, TLC

(* ------------------------------ bounds -------------------------------- *)
MaxHeaders == 2
MaxQuery == 2
MaxReqs == 2
MaxClock == 1
MaxTextLen == 5
RecursionLimit == 2

(* --------------------------- Python values ---------------------------- *)
\* A Python value as json.loads produces it; every field is always present.
PyVal(t, b, n, s, keys, items) ==
    [t |-> t, b |-> b, n |-> n, s |-> s, keys |-> keys, items |-> items]

None == PyVal("None", FALSE, 0, <<>>, <<>>, <<>>)
PyBool(b) == PyVal("bool", b, 0, <<>>, <<>>, <<>>)
PyInt(n) == PyVal("int", FALSE, n, <<>>, <<>>, <<>>)
PyStr(s) == PyVal("str", FALSE, 0, s, <<>>, <<>>)
PyList(items) == PyVal("list", FALSE, 0, <<>>, <<>>, items)
PyDict(keys, items) == PyVal("dict", FALSE, 0, <<>>, keys, items)

\* Python truthiness of a value (the test of `if body_json:`).
Truthy(v) ==
    CASE v.t = "None" -> FALSE
      [] v.t = "bool" -> v.b
      [] v.t = "int" -> v.n # 0
      [] v.t = "str" -> Len(v.s) > 0
      [] v.t = "list" -> Len(v.items) > 0
      [] v.t = "dict" -> Len(v.keys) > 0

\* Truthiness of a str or of a dict held as a sequence.
NonEmpty(seq) == Len(seq) > 0

\* d[k] = v on an insertion-ordered dict held as a sequence of <<k, v>>.
DictSetItem(d, k, v) ==
    IF \E i \in 1..Len(d) : d[i][1] = k
    THEN [i \in 1..Len(d) |-> IF d[i][1] = k THEN <<k, v>> ELSE d[i]]
    ELSE Append(d, <<k, v>>)

(* ----------------------------- exceptions ----------------------------- *)
\* The exception classes the handler can meet and their base classes.
Bases(exc) ==
    CASE exc = "JSONDecodeError" -> {"JSONDecodeError", "ValueError", "Exception"}
      [] exc = "UnicodeDecodeError" -> {"UnicodeDecodeError", "ValueError", "Exception"}
      [] exc = "RecursionError" -> {"RecursionError", "RuntimeError", "Exception"}
      [] exc = "ClientDisconnect" -> {"ClientDisconnect", "Exception"}
      [] OTHER -> {}

\* `except cls:` catches exc.
Catches(cls, exc) == cls \in Bases(exc)

\* str(e) of the exception, as one fragment.
ExcStr(exc) ==
    CASE exc = "UnicodeDecodeError" -> <<"'utf-8' codec can't decode byte">>
      [] exc = "RecursionError" -> <<"maximum recursion depth exceeded">>
      [] OTHER -> <<>>

(* ------------------------- bytes.decode('utf-8') ---------------------- *)
Ascii ==
    {"0", "1", "2", "\"", "[", "]", "{", "}", ":", ",", " ", "-",
     "a", "e", "f", "j", "l", "n", "o", "r", "s", "t", "u"}

IsLead2(b) == b = "xC3"
IsCont(b) == b = "xA9"

\* The character a two-byte sequence encodes.
Decode2(b1, b2) == IF b1 = "xC3" /\ b2 = "xA9" THEN "e'" ELSE "?"

RECURSIVE Utf8From(_, _)
\* Decodes bytes from position i: [exc, text].
Utf8From(bytes, i) ==
    IF i > Len(bytes) THEN [exc |-> "none", text |-> <<>>]
    ELSE IF bytes[i] \in Ascii THEN
        LET rest == Utf8From(bytes, i + 1)
        IN  [exc |-> rest.exc, text |-> <<bytes[i]>> \o rest.text]
    ELSE IF IsLead2(bytes[i]) /\ i < Len(bytes) /\ IsCont(bytes[i + 1]) THEN
        LET rest == Utf8From(bytes, i + 2)
        IN  [exc |-> rest.exc, text |-> <<Decode2(bytes[i], bytes[i + 1])>> \o rest.text]
    ELSE [exc |-> "UnicodeDecodeError", text |-> <<>>]

Utf8Decode(bytes) == Utf8From(bytes, 1)

(* ------------------------------ json.loads ---------------------------- *)
\* The subset of JSON scanned here: null, true, false, integers, strings
\* without escapes, arrays and objects.  A scan yields [exc, val, next].
Whitespace == {" "}
Digits == {"0", "1", "2"}
DigitVal(c) == CASE c = "0" -> 0 [] c = "1" -> 1 [] c = "2" -> 2

JsonOk(v, next) == [exc |-> "none", val |-> v, next |-> next]
JsonErr(exc) == [exc |-> exc, val |-> None, next |-> 0]

RECURSIVE SkipWs(_, _)
SkipWs(s, i) ==
    IF i <= Len(s) /\ s[i] \in Whitespace THEN SkipWs(s, i + 1) ELSE i

\* s[i..] starts with the literal word.
StartsWith(s, i, word) ==
    /\ i + Len(word) - 1 <= Len(s)
    /\ \A k \in 1..Len(word) : s[i + k - 1] = word[k]

RECURSIVE ScanDigits(_, _, _)
\* Reads \d* from i with the value so far: <<value, next>>.
ScanDigits(s, i, acc) ==
    IF i <= Len(s) /\ s[i] \in Digits
    THEN ScanDigits(s, i + 1, 10 * acc + DigitVal(s[i]))
    ELSE <<acc, i>>

\* -?(0|[1-9]\d*) at i.
ScanNumber(s, i) ==
    LET neg == s[i] = "-"
        j == IF neg THEN i + 1 ELSE i
    IN  IF j > Len(s) \/ s[j] \notin Digits THEN JsonErr("JSONDecodeError")
        ELSE IF s[j] = "0" THEN JsonOk(PyInt(0), j + 1)
        ELSE LET d == ScanDigits(s, j, 0)
             IN  JsonOk(PyInt(IF neg THEN 0 - d[1] ELSE d[1]), d[2])

RECURSIVE ScanStringEnd(_, _)
\* Index of the closing quote at or after i, 0 when the string never ends.
ScanStringEnd(s, i) ==
    IF i > Len(s) THEN 0
    ELSE IF s[i] = "\"" THEN i
    ELSE ScanStringEnd(s, i + 1)

\* The string whose opening quote is at i.
ScanString(s, i) ==
    LET e == ScanStringEnd(s, i + 1)
    IN  IF e = 0 THEN JsonErr("JSONDecodeError")
        ELSE JsonOk(PyStr(SubSeq(s, i + 1, e - 1)), e + 1)

\* keys/items of a dict after d[k] = v (a repeated key keeps its place).
DictPut(keys, items, k, v) ==
    IF \E i \in 1..Len(keys) : keys[i] = k
    THEN <<keys, [i \in 1..Len(items) |-> IF keys[i] = k THEN v ELSE items[i]]>>
    ELSE <<Append(keys, k), Append(items, v)>>

RECURSIVE ScanOnce(_, _, _)
RECURSIVE ScanMembers(_, _, _, _, _, _)

\* The key of the member at i: the string at i in an object, none in an array.
ScanKey(s, i, isDict) ==
    IF ~isDict THEN JsonOk(None, i)
    ELSE IF i > Len(s) \/ s[i] # "\"" THEN JsonErr("JSONDecodeError")
    ELSE ScanString(s, i)

\* Where the value of the member at i starts, 0 when the colon is missing.
ValueStart(s, i, isDict, k) ==
    IF ~isDict THEN i
    ELSE IF SkipWs(s, k.next) <= Len(s) /\ s[SkipWs(s, k.next)] = ":"
    THEN SkipWs(s, SkipWs(s, k.next) + 1)
    ELSE 0

\* The container once member (k, v) is scanned and j is the next token.
AfterMember(s, depth, isDict, keys, items, k, v, j) ==
    IF j > Len(s) THEN JsonErr("JSONDecodeError")
    ELSE IF s[j] = (IF isDict THEN "}" ELSE "]") THEN
        IF isDict
        THEN JsonOk(PyDict(DictPut(keys, items, k.val.s, v.val)[1],
                           DictPut(keys, items, k.val.s, v.val)[2]), j + 1)
        ELSE JsonOk(PyList(Append(items, v.val)), j + 1)
    ELSE IF s[j] = "," THEN
        IF isDict
        THEN ScanMembers(s, SkipWs(s, j + 1), depth, isDict,
                         DictPut(keys, items, k.val.s, v.val)[1],
                         DictPut(keys, items, k.val.s, v.val)[2])
        ELSE ScanMembers(s, SkipWs(s, j + 1), depth, isDict, keys, Append(items, v.val))
    ELSE JsonErr("JSONDecodeError")

\* The container once the value v of the member with key k is scanned.
AfterValue(s, depth, isDict, keys, items, k, v) ==
    IF v.exc # "none" THEN v
    ELSE AfterMember(s, depth, isDict, keys, items, k, v, SkipWs(s, v.next))

\* The container once the key k of the member at i is scanned.
AfterKey(s, i, depth, isDict, keys, items, k) ==
    IF k.exc # "none" THEN k
    ELSE IF ValueStart(s, i, isDict, k) = 0 THEN JsonErr("JSONDecodeError")
    ELSE AfterValue(s, depth, isDict, keys, items, k,
                    ScanOnce(s, ValueStart(s, i, isDict, k), depth))

\* The members of an array or an object from i (just after the opening
\* bracket or after a comma): values, or "key": value pairs when isDict.
ScanMembers(s, i, depth, isDict, keys, items) ==
    AfterKey(s, i, depth, isDict, keys, items, ScanKey(s, i, isDict))

\* The array or object opened at i, whose first token after it is at j.
ScanContainer(s, i, j, depth) ==
    IF j > Len(s) THEN JsonErr("JSONDecodeError")
    ELSE IF s[i] = "[" /\ s[j] = "]" THEN JsonOk(PyList(<<>>), j + 1)
    ELSE IF s[i] = "{" /\ s[j] = "}" THEN JsonOk(PyDict(<<>>, <<>>), j + 1)
    ELSE ScanMembers(s, j, depth + 1, s[i] = "{", <<>>, <<>>)

\* One JSON value at i; depth counts the enclosing arrays and objects.
ScanOnce(s, i, depth) ==
    IF i > Len(s) THEN JsonErr("JSONDecodeError")
    ELSE IF s[i] = "\"" THEN ScanString(s, i)
    ELSE IF s[i] \in {"[", "{"} THEN
        IF depth + 1 > RecursionLimit THEN JsonErr("RecursionError")
        ELSE ScanContainer(s, i, SkipWs(s, i + 1), depth)
    ELSE IF StartsWith(s, i, <<"n", "u", "l", "l">>) THEN JsonOk(None, i + 4)
    ELSE IF StartsWith(s, i, <<"t", "r", "u", "e">>) THEN JsonOk(PyBool(TRUE), i + 4)
    ELSE IF StartsWith(s, i, <<"f", "a", "l", "s", "e">>) THEN JsonOk(PyBool(FALSE), i + 5)
    ELSE IF s[i] \in Digits \cup {"-"} THEN ScanNumber(s, i)
    ELSE JsonErr("JSONDecodeError")

\* json.loads(s): one value between optional whitespace, nothing after it.
JsonLoads(s) ==
    LET v == ScanOnce(s, SkipWs(s, 1), 0)
    IN  IF v.exc # "none" THEN v
        ELSE IF SkipWs(s, v.next) # Len(s) + 1 THEN JsonErr("JSONDecodeError")
        ELSE v

(* ------------------------ json.dumps(v, indent=2) --------------------- *)
RECURSIVE Spaces(_)
\* n spaces, one fragment each.
Spaces(n) == IF n = 0 THEN <<>> ELSE <<" ">> \o Spaces(n - 1)

\* ensure_ascii: a character outside ASCII is written as its \u escape.
EscapeChar(c) == IF c = "e'" THEN "\\u00e9" ELSE c
Escaped(s) == [k \in 1..Len(s) |-> EscapeChar(s[k])]

RECURSIVE JsonDumps(_, _)
RECURSIVE DumpItems(_, _, _, _)

\* The members of a container from index i, each on its own line.
DumpItems(v, i, level, isDict) ==
    IF i > Len(v.items) THEN <<>>
    ELSE <<"\n">> \o Spaces(2 * level)
         \o (IF isDict THEN <<"\"">> \o Escaped(v.keys[i]) \o <<"\"", ": ">> ELSE <<>>)
         \o JsonDumps(v.items[i], level)
         \o (IF i < Len(v.items) THEN <<",">> ELSE <<>>)
         \o DumpItems(v, i + 1, level, isDict)

\* The fragments of json.dumps(v, indent=2) for a value nested at level.
JsonDumps(v, level) ==
    CASE v.t = "None" -> <<"null">>
      [] v.t = "bool" -> IF v.b THEN <<"true">> ELSE <<"false">>
      [] v.t = "int" -> <<ToString(v.n)>>
      [] v.t = "str" -> <<"\"">> \o Escaped(v.s) \o <<"\"">>
      [] v.t = "list" ->
            IF Len(v.items) = 0 THEN <<"[]">>
            ELSE <<"[">> \o DumpItems(v, 1, level + 1, FALSE)
                 \o <<"\n">> \o Spaces(2 * level) \o <<"]">>
      [] v.t = "dict" ->
            IF Len(v.items) = 0 THEN <<"{}">>
            ELSE <<"{">> \o DumpItems(v, 1, level + 1, TRUE)
                 \o <<"\n">> \o Spaces(2 * level) \o <<"}">>


(* ------------------------------ requests ------------------------------ *)
\* methods=[...] of the /api/messages route.
Methods == {"GET", "POST", "PUT", "PATCH", "DELETE", "HEAD", "OPTIONS"}

SeqsUpTo(S, n) == UNION {[1..k -> S] : k \in 0..n}

HeaderNames == {"a", "b"}
HeaderValues == {"1", "2"}
QueryKeys == {"q", "r"}
QueryValues == {"1", "2"}

\* The header list and the query list of a request as the server received
\* them: <<name, value>> pairs in order, names may repeat.
HeaderLists == SeqsUpTo(HeaderNames \X HeaderValues, MaxHeaders)
QueryLists == SeqsUpTo(QueryKeys \X QueryValues, MaxQuery)

\* request.client: the peer address, or no client at all.
NoClient == [present |-> FALSE, host |-> ""]
Peer(host) == [present |-> TRUE, host |-> host]
Clients == {NoClient, Peer("10.0.0.1")}

\* Request bodies, as bytes.
EmptyBody == <<>>
JsonObjectBody == <<"{", "\"", "a", "\"", ":", "1", "}">>
InvalidUtf8Body == <<"n", "o", "xA9">>
FalsyJsonBodies ==
    { <<"0">>, <<"f", "a", "l", "s", "e">>, <<"n", "u", "l", "l">>,
      <<"\"", "\"">>, <<"[", "]">>, <<"{", "}">> }
TruthyJsonBodies ==
    { <<"1">>, <<"-", "1", "2">>, <<"t", "r", "u", "e">>, <<"\"", "a", "\"">>,
      <<"\"", "xC3", "xA9", "\"">>, <<"[", "1", ",", " ", "2", "]">>,
      <<"[", "[", "1", "]", "]">>, JsonObjectBody,
      <<" ", "{", "\"", "a", "\"", ":", "[", "]", ",", "\"", "a", "\"", ":", "n", "u", "l", "l", "}">>,
      <<"{", "\"", "a", "\"", ":", "0", ",", "\"", "a", "\"", ":", "[", "2", "]", "}">> }
DeepJsonBody == <<"[", "[", "[", "[", "]", "]", "]", "]">>
NotJsonBodies ==
    { <<"n", "o", "t", " ", "j", "s", "o", "n">>, <<"n", "o", "t">>, <<" ">>, <<"{">>,
      <<"0", "1">>, <<"[", "1", ",", "]">>, <<"xC3", "xA9">>, <<"{", "a", ":", "1", "}">> }
InvalidUtf8Bodies == {InvalidUtf8Body, <<"xC3">>, <<"{", "}", "xA9">>}
BodySamples ==
    {EmptyBody, DeepJsonBody} \cup FalsyJsonBodies \cup TruthyJsonBodies
    \cup NotJsonBodies \cup InvalidUtf8Bodies

\* What `await request.body()` does: returns the bytes or raises.
Returns(bytes) == [exc |-> "none", bytes |-> bytes]
Raises(exc) == [exc |-> exc, bytes |-> <<>>]
ReadOutcomes == {Returns(b) : b \in BodySamples} \cup {Raises("ClientDisconnect")}

Request(m, h, q, c, b) ==
    [method |-> m, headers |-> h, query_params |-> q, client |-> c, body |-> b]

\* The requests a single invocation receives: every method, client and body
\* under fixed headers, and every header list with every query list.
Requests ==
    {Request(m, <<<<"a", "1">>>>, <<>>, c, b) :
        m \in Methods, c \in Clients, b \in ReadOutcomes}
    \cup {Request("POST", h, q, Peer("10.0.0.1"), Returns(JsonObjectBody)) :
        h \in HeaderLists, q \in QueryLists}

\* The requests concurrent invocations receive.
ConcRequests ==
    { Request("GET", <<<<"a", "1">>>>, <<>>, NoClient, Returns(EmptyBody)),
      Request("GET", <<<<"b", "2">>, <<"a", "2">>>>, <<<<"q", "1">>>>, Peer("10.0.0.1"),
              Returns(JsonObjectBody)),
      Request("POST", <<>>, <<<<"r", "2">>>>, Peer("10.0.0.1"), Returns(InvalidUtf8Body)),
      Request("POST", <<<<"a", "2">>>>, <<>>, NoClient, Raises("ClientDisconnect")) }

NoRequest == Request("", <<>>, <<>>, NoClient, Returns(EmptyBody))

\* Variant: m[name] is the last value received under the name.
HeadersGetLast(raw, i, name) ==
    raw[CHOOSE k \in i..Len(raw) :
            raw[k][1] = name /\ \A j \in k + 1..Len(raw) : raw[j][1] # name][2]

\* dict(request.headers): keys() lists every received name, m[name] is the
\* first value received under that name.
RECURSIVE HeadersGetItem(_, _, _)
HeadersGetItem(raw, i, name) ==
    IF raw[i][1] = name THEN raw[i][2] ELSE HeadersGetItem(raw, i + 1, name)

RECURSIVE DictFromHeaders(_, _, _)
DictFromHeaders(raw, i, d) ==
    IF i > Len(raw) THEN d
    ELSE DictFromHeaders(raw, i + 1,
                         DictSetItem(d, raw[i][1], HeadersGetItem(raw, 1, raw[i][1])))

HeadersDict(raw) == DictFromHeaders(raw, 1, <<>>)

\* dict(request.query_params): the multi-dict keeps {k: v for k, v in items},
\* the last value received under each key.
RECURSIVE DictFromItems(_, _, _)
DictFromItems(raw, i, d) ==
    IF i > Len(raw) THEN d
    ELSE DictFromItems(raw, i + 1, DictSetItem(d, raw[i][1], raw[i][2]))

QueryDict(raw) == DictFromItems(raw, 1, <<>>)

\* str(request.url): the route, then "?" and the query string if any.
RECURSIVE QueryString(_, _)
QueryString(raw, i) ==
    IF i > Len(raw) THEN <<>>
    ELSE (IF i > 1 THEN <<"&">> ELSE <<>>) \o <<raw[i][1], "=", raw[i][2]>>
         \o QueryString(raw, i + 1)

Url(req) ==
    <<"http://testserver/api/messages">>
    \o (IF Len(req.query_params) > 0 THEN <<"?">> \o QueryString(req.query_params, 1)
        ELSE <<>>)

\* repr of a dict of str to str: {'k': 'v', ...}.
RECURSIVE DictReprItems(_, _)
DictReprItems(d, i) ==
    IF i > Len(d) THEN <<>>
    ELSE (IF i > 1 THEN <<", ">> ELSE <<>>) \o <<"'", d[i][1], "': '", d[i][2], "'">>
         \o DictReprItems(d, i + 1)

DictRepr(d) == <<"{">> \o DictReprItems(d, 1) \o <<"}">>

\* datetime.isoformat() of the instant t.
IsoFormat(t) == ToString(t)


(* --------------------------- handle_messages -------------------------- *)
VARIABLES
    clock,          \* the current UTC instant
    pc,             \* per invocation: "idle", "awaiting" (at the await of
                    \* request.body()), "done" (returned), "raised"
    request,        \* per invocation: the request handed to the handler
    timestamp,      \* per invocation: the handler's locals
    method,
    headers,
    query_params,
    body_decoded,
    body_json,
    response,       \* per invocation: the returned JSONResponse
    log,            \* the log sink: [rid, msg], rid naming the invocation
                    \* that made the logger.info call
    chat_pc,        \* handle_message: "idle", "typing" (typing sent), "done"
    activity_text,  \* ctx.activity.text
    outbox          \* what handle_message handed to ctx.reply / ctx.send

vars ==
    <<clock, pc, request, timestamp, method, headers, query_params, body_decoded,
      body_json, response, log, chat_pc, activity_text, outbox>>

http_vars ==
    <<clock, pc, request, timestamp, method, headers, query_params, body_decoded,
      body_json, response, log>>

chat_vars == <<chat_pc, activity_text, outbox>>

Invocations == 1..MaxReqs

Banner == <<"================================================================================">>
Separator == <<"--------------------------------------------------------------------------------">>

NoResponse ==
    [status_code |-> 0, content |-> [status |-> "", message |-> <<>>, timestamp |-> ""]]

\* Variant: every invocation reads one module-level request object.
RequestShared(r) == request[1]

\* The request object bound to invocation r's `request` parameter.
RequestOf(r) == request[r]

\* Variant: the outer clause is `except ValueError`.
OuterExceptValueError == "ValueError"

\* The exception classes of the two except clauses.
InnerExcept == "JSONDecodeError"
OuterExcept == "Exception"

\* Variant: the body text is str(e) alone.
ErrorTextBare(exc) == ExcStr(exc)

\* f"Error reading body: {str(e)}"
ErrorText(exc) == <<"Error reading body: ">> \o ExcStr(exc)

\* The inner try: json.loads(body_decoded) if body_decoded else None.
ParseBody(text) ==
    IF ~NonEmpty(text) THEN [exc |-> "none", body_json |-> None]
    ELSE LET j == JsonLoads(text)
         IN  IF j.exc = "none" THEN [exc |-> "none", body_json |-> j.val]
             ELSE IF Catches(InnerExcept, j.exc) THEN [exc |-> "none", body_json |-> None]
             ELSE [exc |-> j.exc, body_json |-> None]

\* The outer try around the read, the decode and the parse; exc is the
\* exception that leaves the handler, "none" if there is none.
ReadBody(outcome) ==
    LET d == Utf8Decode(outcome.bytes)
        p == ParseBody(d.text)
        e == IF outcome.exc # "none" THEN outcome.exc
             ELSE IF d.exc # "none" THEN d.exc
             ELSE p.exc
    IN  IF e = "none"
        THEN [exc |-> "none", body_decoded |-> d.text, body_json |-> p.body_json]
        ELSE IF Catches(OuterExcept, e)
        THEN [exc |-> "none", body_decoded |-> ErrorText(e), body_json |-> None]
        ELSE [exc |-> e, body_decoded |-> <<>>, body_json |-> None]

\* Variant: the JSON section is logged unconditionally.
LogsJsonAlways(v) == TRUE

\* `if body_json:`
LogsJson(v) == Truthy(v)

\* for key, value in headers.items(): f"  {key}: {value}"
HeaderLines(d) == [i \in 1..Len(d) |-> <<"  ", d[i][1], ": ", d[i][2]>>]

\* request.client.host if request.client else 'Unknown'
ClientText(c) == IF c.present THEN c.host ELSE "Unknown"

\* Variant: the query section is logged before the headers section.
LogRecordQueryFirst(m, ts, url, client, hdrs, query, text, json) ==
    << Banner,
       <<"Incoming ", m, " request to /api/messages">>,
       Banner,
       <<"Timestamp: ", ts>>,
       <<"URL: ">> \o url,
       <<"Client: ", ClientText(client)>>,
       Separator,
       <<"Query Parameters:">>,
       <<"  ">> \o (IF NonEmpty(query) THEN DictRepr(query) ELSE <<"None">>),
       Separator,
       <<"Headers:">> >>
    \o HeaderLines(hdrs)
    \o << Separator,
          <<"Body (raw):">>,
          <<"  ">> \o (IF NonEmpty(text) THEN text ELSE <<"Empty">>),
          Separator >>
    \o (IF LogsJson(json)
        THEN << <<"Body (JSON):">>, <<"  ">> \o JsonDumps(json, 0), Separator >>
        ELSE <<>>)
    \o <<Banner>>

\* The messages of the logger.info calls, in the order they are made.
LogRecord(m, ts, url, client, hdrs, query, text, json) ==
    << Banner,
       <<"Incoming ", m, " request to /api/messages">>,
       Banner,
       <<"Timestamp: ", ts>>,
       <<"URL: ">> \o url,
       <<"Client: ", ClientText(client)>>,
       Separator,
       <<"Headers:">> >>
    \o HeaderLines(hdrs)
    \o << Separator,
          <<"Query Parameters:">>,
          <<"  ">> \o (IF NonEmpty(query) THEN DictRepr(query) ELSE <<"None">>),
          Separator,
          <<"Body (raw):">>,
          <<"  ">> \o (IF NonEmpty(text) THEN text ELSE <<"Empty">>),
          Separator >>
    \o (IF LogsJson(json)
        THEN << <<"Body (JSON):">>, <<"  ">> \o JsonDumps(json, 0), Separator >>
        ELSE <<>>)
    \o <<Banner>>

\* logger.info of every message of a record, by invocation r.
Logged(r, record) == [i \in 1..Len(record) |-> [rid |-> r, msg |-> record[i]]]

\* Variant: the message names the client the request came from.
ResponseEcho(r) ==
    [status_code |-> 200,
     content |-> [status |-> "received",
                  message |-> <<method[r], " request from ", ClientText(request[r].client),
                                " logged successfully">>,
                  timestamp |-> timestamp[r]]]

\* Variant: the timestamp is taken again when the response is built.
ResponseRecomputed(r) ==
    [status_code |-> 200,
     content |-> [status |-> "received",
                  message |-> <<method[r], " request logged successfully">>,
                  timestamp |-> IsoFormat(clock)]]

\* JSONResponse(status_code=200, content={...}) of invocation r.
Response(r) ==
    [status_code |-> 200,
     content |-> [status |-> "received",
                  message |-> <<method[r], " request logged successfully">>,
                  timestamp |-> timestamp[r]]]

TypeInit ==
    /\ clock = 0
    /\ pc = [r \in Invocations |-> "idle"]
    /\ request = [r \in Invocations |-> NoRequest]
    /\ timestamp = [r \in Invocations |-> ""]
    /\ method = [r \in Invocations |-> ""]
    /\ headers = [r \in Invocations |-> <<>>]
    /\ query_params = [r \in Invocations |-> <<>>]
    /\ body_decoded = [r \in Invocations |-> <<>>]
    /\ body_json = [r \in Invocations |-> None]
    /\ response = [r \in Invocations |-> NoResponse]
    /\ log = <<>>
    /\ chat_pc = "idle"
    /\ activity_text = <<>>
    /\ outbox = <<>>

Init == TypeInit

\* Time passes.
Tick ==
    /\ clock < MaxClock
    /\ clock' = clock + 1
    /\ UNCHANGED <<pc, request, timestamp, method, headers, query_params,
                   body_decoded, body_json, response, log, chat_vars>>

\* The server calls handle_messages as invocation r on one of the requests
\* reqs; the handler runs to the await of request.body().
Arrive(r, reqs) ==
    /\ pc[r] = "idle"
    /\ \E req \in reqs :
          /\ request' = [request EXCEPT ![r] = req]
          /\ method' = [method EXCEPT ![r] = req.method]
          /\ headers' = [headers EXCEPT ![r] = HeadersDict(req.headers)]
          /\ query_params' = [query_params EXCEPT ![r] = QueryDict(req.query_params)]
    /\ timestamp' = [timestamp EXCEPT ![r] = IsoFormat(clock)]
    /\ pc' = [pc EXCEPT ![r] = "awaiting"]
    /\ UNCHANGED <<clock, body_decoded, body_json, response, log, chat_vars>>

\* The await of request.body() completes; the handler runs to its return
\* without another await: the try block, every logger.info, the response.
Resume(r) ==
    /\ pc[r] = "awaiting"
    /\ LET req == RequestOf(r)
           b == ReadBody(req.body)
       IN  IF b.exc = "none"
           THEN /\ body_decoded' = [body_decoded EXCEPT ![r] = b.body_decoded]
                /\ body_json' = [body_json EXCEPT ![r] = b.body_json]
                /\ log' = log \o Logged(r, LogRecord(method[r], timestamp[r], Url(req),
                                                     req.client, headers[r], query_params[r],
                                                     b.body_decoded, b.body_json))
                /\ response' = [response EXCEPT ![r] = Response(r)]
                /\ pc' = [pc EXCEPT ![r] = "done"]
           ELSE /\ pc' = [pc EXCEPT ![r] = "raised"]
                /\ UNCHANGED <<body_decoded, body_json, log, response>>
    /\ UNCHANGED <<clock, request, timestamp, method, headers, query_params, chat_vars>>

\* One invocation, on every request of Requests.
Next ==
    \/ Arrive(1, Requests)
    \/ Resume(1)
    \/ Tick

Spec == Init /\ [][Next]_vars

\* Concurrent invocations on one event loop.
NextConc ==
    \/ \E r \in Invocations : Arrive(r, ConcRequests)
    \/ \E r \in Invocations : Resume(r)
    \/ Tick

SpecConc == Init /\ [][NextConc]_vars

(* ---------------------------- handle_message -------------------------- *)
\* The characters chat texts are drawn from.
TextChars == {"r", "e", "p", "l", "y", "R"}
Texts == SeqsUpTo(TextChars, MaxTextLen)

\* str.lower(), character by character.
LowerChar(c) ==
    CASE c = "R" -> "r" [] c = "E" -> "e" [] c = "P" -> "p"
      [] c = "L" -> "l" [] c = "Y" -> "y" [] OTHER -> c

\* Variant: the text is searched as it is, without lower().
LowerNoop(t) == t

Lower(t) == [i \in 1..Len(t) |-> LowerChar(t[i])]

\* `word in t`
Contains(t, word) == \E i \in 1..Len(t) + 1 : StartsWith(t, i, word)

TypingActivity == [via |-> "reply", kind |-> "typing", text |-> <<>>]
Greeting == [via |-> "reply", kind |-> "message",
             text |-> <<"Hello! How can I assist you today?">>]
Echo(t) == [via |-> "send", kind |-> "message", text |-> <<"You said '">> \o t \o <<"'">>]

\* The dispatcher calls handle_message on an activity with some text; the
\* handler hands the typing indicator to ctx.reply and awaits it.
HandleMessage ==
    /\ chat_pc = "idle"
    /\ \E text \in Texts : activity_text' = text
    /\ outbox' = Append(outbox, TypingActivity)
    /\ chat_pc' = "typing"
    /\ UNCHANGED http_vars

\* The await of the typing indicator completes; the handler replies or
\* echoes and returns.
HandleMessageResume ==
    /\ chat_pc = "typing"
    /\ outbox' = Append(outbox,
                        IF Contains(Lower(activity_text), <<"r", "e", "p", "l", "y">>)
                        THEN Greeting
                        ELSE Echo(activity_text))
    /\ chat_pc' = "done"
    /\ UNCHANGED <<activity_text, http_vars>>

NextChat ==
    \/ HandleMessage
    \/ HandleMessageResume

SpecChat == Init /\ [][NextChat]_vars

(* ------------------------------- claims ------------------------------- *)
\* The messages invocation r logged, in log order.
RecordOf(r) ==
    LET own == SelectSeq(log, LAMBDA e : e.rid = r)
    IN  [i \in 1..Len(own) |-> own[i].msg]

Has(rec, msg) == \E i \in 1..Len(rec) : rec[i] = msg
Count(rec, msg) == Cardinality({i \in 1..Len(rec) : rec[i] = msg})
Position(rec, msg) == CHOOSE i \in 1..Len(rec) : rec[i] = msg

\* The bodies that are JSON documents, and the other kinds of body.
ValidJsonBodies == FalsyJsonBodies \cup TruthyJsonBodies \cup {DeepJsonBody}
BodyReturned(r) == request[r].body.exc = "none"
BodyIn(r, bodies) == BodyReturned(r) /\ request[r].body.bytes \in bodies

\* The acknowledgment of a request with method m captured at ts.
Acknowledgment(m, ts) ==
    [status_code |-> 200,
     content |-> [status |-> "received",
                  message |-> <<m, " request logged successfully">>,
                  timestamp |-> ts]]

\* C1: for every method and every body (empty, JSON, text that is not JSON,
\* bytes that are not UTF-8) the handler does not raise and returns 200 with
\* the acknowledgment naming the request's method.
C1_AlwaysAcknowledged ==
    \A r \in Invocations :
        /\ pc[r] # "raised"
        /\ pc[r] = "done" =>
              /\ request[r].method \in Methods
              /\ response[r] = Acknowledgment(request[r].method, timestamp[r])

C1_Witness ==
    /\ pc[1] = "done"
    /\ request[1].method = "DELETE"
    /\ BodyIn(1, InvalidUtf8Bodies)
    /\ response[1].status_code = 200

\* C2: for every body that is a JSON document, the record has a
\* 'Body (JSON):' line followed by the 2-space-indented rendering of the
\* document, the values 0, false, null, "", [] and {} included.
C2_EveryJsonBodyRendered ==
    \A r \in Invocations :
        (pc[r] = "done" /\ BodyIn(r, FalsyJsonBodies \cup TruthyJsonBodies)) =>
            /\ Count(RecordOf(r), <<"Body (JSON):">>) = 1
            /\ LET rec == RecordOf(r)
                   i == Position(rec, <<"Body (JSON):">>)
                   text == Utf8Decode(request[r].body.bytes).text
               IN  /\ i < Len(rec)
                   /\ rec[i + 1] = <<"  ">> \o JsonDumps(JsonLoads(text).val, 0)

\* C3: a 'Body (JSON):' line is logged only for a body that is a JSON
\* document; otherwise the record ends Separator, Banner right after the raw
\* body line.
C3_JsonSectionOnlyForJson ==
    \A r \in Invocations :
        pc[r] = "done" =>
            LET rec == RecordOf(r)
            IN  /\ Has(rec, <<"Body (JSON):">>) => BodyIn(r, ValidJsonBodies)
                /\ ~BodyIn(r, ValidJsonBodies) =>
                      /\ Count(rec, <<"Body (raw):">>) = 1
                      /\ LET i == Position(rec, <<"Body (raw):">>)
                         IN  /\ Len(rec) = i + 3
                             /\ rec[i + 2] = Separator
                             /\ rec[i + 3] = Banner

C3_Witness ==
    /\ pc[1] = "done"
    /\ BodyIn(1, NotJsonBodies)
    /\ ~Has(RecordOf(1), <<"Body (JSON):">>)

\* C4: when the read of the body or its UTF-8 decoding raises, the handler
\* does not raise, the raw body line shows 'Error reading body: ...' and not
\* 'Empty', no JSON section is logged and the response is the 200
\* acknowledgment.
C4_ReadErrorAbsorbed ==
    \A r \in Invocations :
        (~BodyReturned(r) \/ BodyIn(r, InvalidUtf8Bodies)) =>
            /\ pc[r] # "raised"
            /\ pc[r] = "done" =>
                  LET rec == RecordOf(r)
                  IN  /\ Count(rec, <<"Body (raw):">>) = 1
                      /\ LET line == rec[Position(rec, <<"Body (raw):">>) + 1]
                         IN  /\ Len(line) >= 2
                             /\ line[1] = "  "
                             /\ line[2] = "Error reading body: "
                             /\ line # <<"  ", "Empty">>
                      /\ ~Has(rec, <<"Body (JSON):">>)
                      /\ body_json[r] = None
                      /\ response[r] = Acknowledgment(request[r].method, timestamp[r])

C4_Witness ==
    /\ pc[1] = "done"
    /\ ~BodyReturned(1)
    /\ Has(RecordOf(1), <<"  ", "Error reading body: ">>)

\* C5: two requests with the same method and the same captured timestamp
\* get the same status code and the same response body, whatever their
\* bodies, headers, query parameters, URLs and clients.
C5_ResponseIgnoresContent ==
    \A r1, r2 \in Invocations :
        (/\ pc[r1] = "done" /\ pc[r2] = "done"
         /\ request[r1].method = request[r2].method
         /\ timestamp[r1] = timestamp[r2]) => response[r1] = response[r2]

C5_Witness ==
    /\ pc[1] = "done" /\ pc[2] = "done"
    /\ request[1].method = request[2].method
    /\ timestamp[1] = timestamp[2]
    /\ request[1].body # request[2].body
    /\ request[1].headers # request[2].headers
    /\ request[1].query_params # request[2].query_params
    /\ request[1].client # request[2].client
    /\ response[1] = response[2]

\* The distinct names of a list of <<name, value>> pairs.
Names(raw) == {raw[i][1] : i \in 1..Len(raw)}

\* C6: the record of a request is, in this order and each once: banner,
\* 'Incoming <METHOD> ...', banner, 'Timestamp:', 'URL:', 'Client:' (host or
\* 'Unknown'), separator, 'Headers:', the header lines, separator,
\* 'Query Parameters:', the dump or 'None', separator, 'Body (raw):', the
\* text or 'Empty', separator, the optional JSON section with its separator,
\* closing banner.
C6_RecordOrder ==
    \A r \in Invocations :
        pc[r] = "done" =>
            LET rec == RecordOf(r)
                req == request[r]
                n == Cardinality(Names(req.headers))
            IN  /\ Len(rec) \in {n + 16, n + 19}
                /\ rec[1] = Banner
                /\ rec[2] = <<"Incoming ", req.method, " request to /api/messages">>
                /\ rec[3] = Banner
                /\ rec[4][1] = "Timestamp: "
                /\ rec[5][1] = "URL: "
                /\ rec[6] = <<"Client: ",
                              IF req.client.present THEN req.client.host ELSE "Unknown">>
                /\ rec[7] = Separator
                /\ rec[8] = <<"Headers:">>
                /\ \A i \in 1..n :
                      /\ Len(rec[8 + i]) = 4
                      /\ rec[8 + i][1] = "  "
                      /\ rec[8 + i][2] \in Names(req.headers)
                      /\ rec[8 + i][3] = ": "
                /\ rec[n + 9] = Separator
                /\ rec[n + 10] = <<"Query Parameters:">>
                /\ rec[n + 11][1] = "  "
                /\ (rec[n + 11] = <<"  ", "None">>) <=> (req.query_params = <<>>)
                /\ rec[n + 12] = Separator
                /\ rec[n + 13] = <<"Body (raw):">>
                /\ rec[n + 14][1] = "  "
                /\ (rec[n + 14] = <<"  ", "Empty">>) <=> BodyIn(r, {EmptyBody})
                /\ rec[n + 15] = Separator
                /\ Len(rec) = n + 19 =>
                      /\ rec[n + 16] = <<"Body (JSON):">>
                      /\ rec[n + 17][1] = "  "
                      /\ rec[n + 18] = Separator
                /\ rec[Len(rec)] = Banner
                /\ Count(rec, Banner) = 3
                /\ \A title \in {<<"Headers:">>, <<"Query Parameters:">>, <<"Body (raw):">>} :
                      Count(rec, title) = 1

C6_Witness ==
    /\ pc[1] = "done"
    /\ Cardinality(Names(request[1].headers)) = 2
    /\ request[1].query_params # <<>>
    /\ Len(RecordOf(1)) = 2 + 19

\* C7: under any interleaving of invocations, the record and the response of
\* each hold that request's own method, timestamp, headers, query parameters
\* and body, and the lines of one record are contiguous in the log.
C7_RecordsIsolated ==
    /\ \A i, j \in 1..Len(log) :
          (i < j /\ log[i].rid = log[j].rid) =>
              \A k \in i..j : log[k].rid = log[i].rid
    /\ \A r \in Invocations :
          pc[r] = "done" =>
              LET req == request[r]
                  b == ReadBody(req.body)
              IN  /\ RecordOf(r) =
                         LogRecord(req.method, timestamp[r], Url(req), req.client,
                                   HeadersDict(req.headers), QueryDict(req.query_params),
                                   b.body_decoded, b.body_json)
                  /\ response[r] = Acknowledgment(req.method, timestamp[r])
                  /\ RecordOf(r)[4] = <<"Timestamp: ", response[r].content.timestamp>>

C7_Witness ==
    /\ pc[1] = "done" /\ pc[2] = "done"
    /\ timestamp[1] = "0" /\ timestamp[2] = "1"
    /\ log[1].rid = 2
    /\ request[1] # request[2]

\* C8: the timestamp is captured once, when the handler starts and before
\* the body is read or a line is logged; it is not changed afterwards, and it
\* is the value of the 'Timestamp:' line and of the response.
C8_TimestampCapturedOnce ==
    [][\A r \in Invocations :
          /\ (pc[r] = "idle" /\ pc'[r] = "awaiting") =>
                /\ timestamp'[r] = ToString(clock)
                /\ log' = log
          /\ pc[r] # "idle" => timestamp'[r] = timestamp[r]
          /\ (pc[r] = "awaiting" /\ pc'[r] = "done") =>
                /\ response'[r].content.timestamp = timestamp[r]
                /\ Has(SelectSeq(log', LAMBDA e : e.rid = r),
                       [rid |-> r, msg |-> <<"Timestamp: ", timestamp[r]>>])]_vars

C8_Witness ==
    /\ pc[1] = "done"
    /\ timestamp[1] = "0"
    /\ clock = 1
    /\ response[1].content.timestamp = "0"

\* The values received under a name, in order.
ValuesOf(raw, name) ==
    LET at == SelectSeq(raw, LAMBDA p : p[1] = name)
    IN  [i \in 1..Len(at) |-> at[i][2]]

\* The header lines of the record of r.
HeaderLinesOf(r) ==
    LET rec == RecordOf(r)
        n == Cardinality(Names(request[r].headers))
    IN  [i \in 1..n |-> rec[8 + i]]

\* The query dump line of the record of r.
QueryLineOf(r) ==
    RecordOf(r)[Cardinality(Names(request[r].headers)) + 11]

\* Every distinct header name has exactly one line and every distinct query
\* key is in the dump.
AllNamesLogged(r) ==
    /\ \A name \in Names(request[r].headers) :
          Cardinality({i \in 1..Len(HeaderLinesOf(r)) : HeaderLinesOf(r)[i][2] = name}) = 1
    /\ \A key \in Names(request[r].query_params) : Has(QueryLineOf(r), key)

\* The value on the header line of name.
LoggedValue(r, name) ==
    LET lines == HeaderLinesOf(r)
    IN  lines[CHOOSE i \in 1..Len(lines) : lines[i][2] = name][4]

\* C9 as stated: every distinct header name has exactly one line, every
\* distinct query key is in the dump, and a repeated header name is logged
\* with the last value received.
C9_LastHeaderWins ==
    \A r \in Invocations :
        pc[r] = "done" =>
            /\ AllNamesLogged(r)
            /\ \A name \in Names(request[r].headers) :
                  LET vs == ValuesOf(request[r].headers, name)
                  IN  LoggedValue(r, name) = vs[Len(vs)]

\* C9 amended: every distinct header name has exactly one line, every
\* distinct query key is in the dump, and a repeated header name is logged
\* with the first value received.
C9_FirstHeaderWins ==
    \A r \in Invocations :
        pc[r] = "done" =>
            /\ AllNamesLogged(r)
            /\ \A name \in Names(request[r].headers) :
                  LoggedValue(r, name) = ValuesOf(request[r].headers, name)[1]

C9_Witness ==
    /\ pc[1] = "done"
    /\ request[1].headers = <<<<"a", "1">>, <<"a", "2">>>>
    /\ Len(request[1].query_params) = 2
    /\ Has(RecordOf(1), <<"  ", "a", ": ", "1">>)

\* t holds 'reply' in some letter case.
MentionsReply(t) ==
    \E i \in 1..Len(t) :
        /\ i + 4 <= Len(t)
        /\ t[i] \in {"r", "R"} /\ t[i + 1] \in {"e", "E"} /\ t[i + 2] \in {"p", "P"}
        /\ t[i + 3] \in {"l", "L"} /\ t[i + 4] \in {"y", "Y"}

\* C10: an invocation of handle_message sends the typing indicator first and
\* then exactly one text: the greeting when the text holds 'reply' in any
\* letter case, otherwise the echo of the unmodified text.
C10_TypingThenOneText ==
    /\ chat_pc = "idle" => outbox = <<>>
    /\ chat_pc = "typing" => outbox = <<TypingActivity>>
    /\ chat_pc = "done" =>
          /\ Len(outbox) = 2
          /\ outbox[1].kind = "typing"
          /\ outbox[2].kind = "message"
          /\ IF MentionsReply(activity_text)
             THEN outbox[2].text = <<"Hello! How can I assist you today?">>
             ELSE outbox[2].text = <<"You said '">> \o activity_text \o <<"'">>

C10_Witness ==
    /\ chat_pc = "done"
    /\ activity_text = <<"R", "e", "p", "l", "y">>
    /\ outbox[2].text = <<"Hello! How can I assist you today?">>
====
